---- MODULE Spec2Model ----
(***************************************************************************)
(* Model of the bubblegum_nif core:                                        *)
(*   merkle.rs        MerkleTree  (insert / get_proof / verify_proof /     *)
(*                    get_root)                                            *)
(*   tree_manager.rs  TreeManager (get_or_create_tree / save_tree_state /  *)
(*                    insert_leaf / verify_leaf) over a TreeStorage        *)
(*                    whose delete_tree any holder of it may call          *)
(*   rate_limiter.rs  RateLimiter::check_rate_limit and with_retry         *)
(*   transaction.rs   TransactionManager (mint_to_collection /             *)
(*                    simulate_and_send / send_with_retry)                 *)
(*                                                                         *)
(* Digests are symbolic: keccak is modelled as a collision-free            *)
(* constructor over byte strings, so that two digests are equal exactly    *)
(* when they were computed from the same input.                            *)
(***************************************************************************)
EXTENDS Integers, Sequences, FiniteSets, TLC

VARIABLES
    \* ---- a single MerkleTree driven sequentially (merkle.rs)
    acc,          \* the MerkleTree value
    accPayloads,  \* ghost: the payloads whose insert succeeded, in order
    accRes,       \* the last operation applied to acc and what it returned
    accInserts,   \* ghost: number of insert calls made on acc so far
    \* ---- TreeManager (tree_manager.rs)
    trees,        \* DashMap<Pubkey, Arc<Mutex<MerkleTree>>>: authority -> handle
    arcs,         \* every Arc<Mutex<MerkleTree>> ever allocated: handle -> tree
    mutex,        \* handle -> the task holding the tokio Mutex, or NoTask
    shardOf,      \* authority -> the DashMap shard its key hashes to
    guards,       \* shard -> tasks holding a DashMap Ref (shard read lock)
    storage,      \* the TreeStorage: authority -> saved MerkleTree or NoTree
    task,         \* per task: its position in the call and its locals
    calls,        \* number of calls started so far
    active,       \* the authorities the callers refer to
    epoch,        \* number of TreeManagers constructed over the storage so far
    ret,          \* ghost: the call that returned last, with its result
    log,          \* ghost: authority -> the insert_leaf calls that returned Ok
    issued,       \* ghost: authority -> handles get_or_create_tree returned
    applied,      \* ghost: authority -> number of tree.insert calls that were Ok
    \* ---- RateLimiter (rate_limiter.rs)
    now,          \* the monotonic clock read by Instant::now()
    requests,     \* RateLimiter.requests
    window_size,  \* RateLimiter.window_size
    max_requests, \* RateLimiter.max_requests
    admitted,     \* ghost: the instants of every admitted call, in order
    lastAdmit,    \* ghost: the last check_rate_limit call
    \* ---- with_retry (rate_limiter.rs)
    retry,        \* the state of one with_retry invocation
    \* ---- TransactionManager (transaction.rs)
    sub,          \* the TransactionManager and one mint_to_collection call
    chain,        \* the cluster: the index of its latest blockhash
    \* ---- the build
    overflow_checks \* the profile's overflow-checks: on in cargo's dev and
                    \* test profiles, off in release

accVars   == <<acc, accPayloads, accRes, accInserts>>
cacheVars == <<trees, arcs, mutex, shardOf, guards, storage, task, calls,
              active, epoch, ret, log, issued, applied>>
limVars   == <<now, requests, window_size, max_requests, admitted, lastAdmit>>
retryVars == <<retry>>
subVars   == <<sub, chain>>
buildVars == <<overflow_checks>>
vars      == <<accVars, cacheVars, limVars, retryVars, subVars, buildVars>>

\* what a step of one component leaves alone
accOthers   == <<cacheVars, limVars, retryVars, subVars, buildVars>>
cacheOthers == <<accVars, limVars, retryVars, subVars, buildVars>>
limOthers   == <<accVars, cacheVars, retryVars, subVars, buildVars>>
retryOthers == <<accVars, cacheVars, limVars, subVars, buildVars>>
subOthers   == <<accVars, cacheVars, limVars, retryVars, buildVars>>

(***************************************************************************)
(* Bounds of the model.                                                    *)
(***************************************************************************)
MaxDepth == 2        \* depths 0..MaxDepth for the sequentially driven tree
MaxExtraInserts == 2 \* insert calls attempted on a full tree
MaxCalls == 3        \* calls made on the TreeManager, all tasks together
MaxIndex == 1        \* verify_leaf is called with index 0..MaxIndex
MaxManagers == 2     \* TreeManagers constructed over one storage, one at a time
MaxTime == 5         \* the clock runs from 0 to MaxTime
MaxWindow == 2       \* window_size is 0..MaxWindow clock units
MaxLimit == 2        \* max_requests is 0..MaxLimit
MaxRetriesCfg == 3   \* config.max_retries is 0..MaxRetriesCfg
MaxDelayCfg == 3     \* config.base_delay and config.max_delay are 0..MaxDelayCfg
MaxHeight == 4       \* the cluster produces the blockhashes 0..MaxHeight

\* the leaf payloads callers pass: the byte strings b"\x01" and b"\x02"
Payloads == { <<1>>, <<2>> }

(***************************************************************************)
(* Digests.                                                                *)
(***************************************************************************)
DigestLen == 32

\* vec![0; 32]
ZeroDigest == [i \in 1..DigestLen |-> 0]

\* keccak::hash(data).to_bytes().to_vec(): a bracketed copy of the input, so
\* that the concatenation of two digests parses in one way only.
keccak(data) == <<-1>> \o data \o <<-2>>

\* keccak::hash(&[&l[..], &r[..]].concat())
HashPair(l, r) == keccak(l \o r)

(***************************************************************************)
(* merkle.rs: MerkleTree                                                   *)
(***************************************************************************)
NoNodes == [h \in {} |-> <<>>]

\* MerkleTree::new
MerkleTreeNew(max_depth) ==
    [max_depth |-> max_depth, nodes |-> NoNodes, leaves |-> <<>>]

WordBits == 64

\* (1 << self.max_depth) in usize arithmetic panics when the shift amount
\* reaches the word size and the build checks overflows
ShiftPanics(max_depth) == overflow_checks /\ max_depth >= WordBits

\* the message of that panic
ShiftOverflow == "attempt to shift left with overflow"

\* the value of (1 << self.max_depth) when the shift does not panic: without
\* overflow checks the shift amount is taken modulo the word size
Capacity(max_depth) == 2 ^ (max_depth % WordBits)

\* the guard of insert: self.leaves.len() >= (1 << self.max_depth)
InsertFull(t) == Len(t.leaves) >= Capacity(t.max_depth)

\* variant of InsertTree: the payload is not recorded in nodes
InsertTreeMutant(t, leaf_data) ==
    [t EXCEPT !.leaves = Append(@, keccak(leaf_data))]

\* MerkleTree::insert on success: the tree after the call
InsertTree(t, leaf_data) ==
    LET leaf_hash == keccak(leaf_data)
    IN  [t EXCEPT !.leaves = Append(@, leaf_hash),
                  !.nodes  = (leaf_hash :> leaf_data) @@ @]

\* variant of Insert: the leaf is pushed before the capacity is tested
InsertMutant(t, leaf_data) ==
    LET t2 == InsertTree(t, leaf_data)
    IN  IF ShiftPanics(t.max_depth)
        THEN [ok |-> FALSE, err |-> ShiftOverflow, index |-> 0, tree |-> t2]
        ELSE IF InsertFull(t)
        THEN [ok |-> FALSE, err |-> "Tree is full", index |-> 0, tree |-> t2]
        ELSE [ok |-> TRUE, err |-> "", index |-> Len(t2.leaves) - 1, tree |-> t2]

\* MerkleTree::insert: the result and the tree after the call.  The guard
\* is evaluated before anything is written, so a panic of its shift (ok is
\* FALSE and err is the panic's message) leaves the tree as it was.
Insert(t, leaf_data) ==
    IF ShiftPanics(t.max_depth)
    THEN [ok |-> FALSE, err |-> ShiftOverflow, index |-> 0, tree |-> t]
    ELSE IF InsertFull(t)
    THEN [ok |-> FALSE, err |-> "Tree is full", index |-> 0, tree |-> t]
    ELSE LET t2 == InsertTree(t, leaf_data)
         IN  [ok |-> TRUE, err |-> "", index |-> Len(t2.leaves) - 1, tree |-> t2]

\* leaves[i] with Rust's 0-based index
LeafAt(t, i) == t.leaves[i + 1]

\* variant of SiblingIndex: the right neighbour, whatever the parity
SiblingIndexMutant(current_index) == current_index + 1

\* sibling_index of get_proof
SiblingIndex(current_index) ==
    IF current_index % 2 = 0 THEN current_index + 1 ELSE current_index - 1

\* the digest get_proof pushes at one level
ProofElement(t, current_index) ==
    LET sibling_index == SiblingIndex(current_index)
    IN  IF sibling_index < Len(t.leaves)
        THEN LeafAt(t, sibling_index)
        ELSE ZeroDigest

\* variant of ProofLevels: the loop stops at the first absent sibling
RECURSIVE ProofLevelsMutant(_, _, _)
ProofLevelsMutant(t, current_index, level) ==
    IF level >= t.max_depth \/ SiblingIndex(current_index) >= Len(t.leaves)
    THEN <<>>
    ELSE <<ProofElement(t, current_index)>>
         \o ProofLevelsMutant(t, current_index \div 2, level + 1)

\* the loop `for level in 0..self.max_depth` of get_proof, from `level` on
RECURSIVE ProofLevels(_, _, _)
ProofLevels(t, current_index, level) ==
    IF level >= t.max_depth
    THEN <<>>
    ELSE <<ProofElement(t, current_index)>>
         \o ProofLevels(t, current_index \div 2, level + 1)

\* variant of GetProofOob: the guard with > for >=
GetProofOobMutant(t, index) == index > Len(t.leaves)

\* the guard of get_proof: index as usize >= self.leaves.len()
GetProofOob(t, index) == index >= Len(t.leaves)

\* MerkleTree::get_proof
GetProof(t, index) ==
    IF GetProofOob(t, index)
    THEN [ok |-> FALSE, err |-> "Index out of bounds", proof |-> <<>>]
    ELSE [ok |-> TRUE, err |-> "", proof |-> ProofLevels(t, index, 0)]

\* MerkleTree::verify_proof: the running hash after the siblings from k on
RECURSIVE VerifyFold(_, _, _, _)
VerifyFold(current_hash, current_index, proof, k) ==
    IF k > Len(proof)
    THEN current_hash
    ELSE LET sibling == proof[k]
             next == IF current_index % 2 = 0
                     THEN HashPair(current_hash, sibling)
                     ELSE HashPair(sibling, current_hash)
         \* a digest is never empty: the test makes TLC evaluate `next` in this
         \* pass, not as a chain of pending passes at the end of a long proof
         IN  IF next = <<>>
             THEN next
             ELSE VerifyFold(next, current_index \div 2, proof, k + 1)

\* MerkleTree::verify_proof
VerifyProof(root, leaf_hash, proof, index) ==
    VerifyFold(leaf_hash, index, proof, 1) = root

\* variant of NextLevel: an unpaired element is hashed with a zero digest
NextLevelMutant(current_level) ==
    [k \in 1..((Len(current_level) + 1) \div 2) |->
        IF 2 * k <= Len(current_level)
        THEN HashPair(current_level[2 * k - 1], current_level[2 * k])
        ELSE HashPair(current_level[2 * k - 1], ZeroDigest)]

\* one pass of `for chunk in current_level.chunks(2)` of get_root
NextLevel(current_level) ==
    [k \in 1..((Len(current_level) + 1) \div 2) |->
        IF 2 * k <= Len(current_level)
        THEN HashPair(current_level[2 * k - 1], current_level[2 * k])
        ELSE current_level[2 * k - 1]]

\* the loop `while current_level.len() > 1` of get_root
RECURSIVE ReduceLevels(_)
ReduceLevels(current_level) ==
    IF Len(current_level) > 1
    THEN ReduceLevels(NextLevel(current_level))
    ELSE current_level[1]

\* MerkleTree::get_root
GetRoot(t) ==
    IF t.leaves = <<>> THEN ZeroDigest ELSE ReduceLevels(t.leaves)

(***************************************************************************)
(* A single MerkleTree driven by one caller.                               *)
(***************************************************************************)
NoDigests == <<>>

AccResult(op, arg, ok, err, index, digests, verified) ==
    [op |-> op, arg |-> arg, ok |-> ok, err |-> err, index |-> index,
     digests |-> digests, verified |-> verified]

\* tree.insert(leaf_data)
AccInsert(leaf_data) ==
    /\ accInserts < Capacity(acc.max_depth) + MaxExtraInserts
    /\ LET r == Insert(acc, leaf_data)
       IN  /\ acc' = r.tree
           /\ accPayloads' = IF r.ok THEN Append(accPayloads, leaf_data)
                                     ELSE accPayloads
           /\ accRes' = AccResult("insert", Len(acc.leaves), r.ok, r.err,
                                  r.index, NoDigests, FALSE)
    /\ accInserts' = accInserts + 1
    /\ UNCHANGED accOthers

\* tree.get_proof(index)
AccGetProof(index) ==
    /\ LET r == GetProof(acc, index)
       IN  accRes' = AccResult("get_proof", index, r.ok, r.err, 0, r.proof, FALSE)
    /\ UNCHANGED <<acc, accPayloads, accInserts>>
    /\ UNCHANGED accOthers

\* tree.get_root()
AccGetRoot ==
    /\ accRes' = AccResult("get_root", 0, TRUE, "", 0, <<GetRoot(acc)>>, FALSE)
    /\ UNCHANGED <<acc, accPayloads, accInserts>>
    /\ UNCHANGED accOthers

\* MerkleTree::verify_proof(&tree.get_root(), &keccak(payload_i), &tree.get_proof(i)?, i)
AccVerify(index) ==
    /\ LET r == GetProof(acc, index)
       IN  accRes' =
             IF r.ok
             THEN AccResult("verify", index, TRUE, "", 0, r.proof,
                            VerifyProof(GetRoot(acc),
                                        keccak(accPayloads[index + 1]),
                                        r.proof, index))
             ELSE AccResult("verify", index, FALSE, r.err, 0, NoDigests, FALSE)
    /\ UNCHANGED <<acc, accPayloads, accInserts>>
    /\ UNCHANGED accOthers

AccNext ==
    \/ \E p \in Payloads : AccInsert(p)
    \/ \E i \in 0..(2 ^ MaxDepth + 1) : AccGetProof(i)
    \/ AccGetRoot
    \/ \E i \in 0..(2 ^ MaxDepth + 1) : AccVerify(i)

(***************************************************************************)
(* tree_manager.rs: TreeManager                                            *)
(***************************************************************************)
Tasks == {1, 2}          \* concurrent callers
Authorities == {1, 2}    \* authority keys
Shards == {1, 2}         \* DashMap shards
NoTask == 0
NoHandle == 0
None == <<>>
Some(x) == <<x>>

\* the max_depth insert_leaf and verify_leaf pass to get_or_create_tree
TreeDepth == 14

\* the max_depth values a caller passes to get_or_create_tree
GocDepths == {1, TreeDepth}

IdleTask ==
    [pc |-> "idle", op |-> "none", auth |-> 1, data |-> <<>>, index |-> 0,
     depth |-> 0, h |-> NoHandle, sh |-> NoHandle, loaded |-> None,
     ret_index |-> 0, ret_root |-> <<>>]

NoRet ==
    [op |-> "none", auth |-> 1, data |-> <<>>, index |-> 0,
     ok |-> TRUE, err |-> "", ret_index |-> 0, ret_root |-> <<>>,
     verified |-> FALSE, h |-> NoHandle, len |-> 0, depth |-> 0]

\* a caller starts a call; it runs on the first idle task (idle tasks are
\* interchangeable)
StartCall(t, op, a, data, index, depth, pc) ==
    /\ task[t].pc = "idle"
    /\ \A u \in Tasks : u < t => task[u].pc # "idle"
    /\ calls < MaxCalls
    /\ calls' = calls + 1
    /\ UNCHANGED <<active, epoch>>
    /\ task' = [task EXCEPT ![t] =
                  [IdleTask EXCEPT !.pc = pc, !.op = op, !.auth = a,
                                   !.data = data, !.index = index,
                                   !.depth = depth]]
    /\ UNCHANGED <<trees, arcs, mutex, shardOf, guards, storage, ret, log,
                   issued, applied>>
    /\ UNCHANGED cacheOthers

\* manager.insert_leaf(&authority, leaf_data)
CallInsertLeaf(t, a, leaf_data) ==
    StartCall(t, "insert_leaf", a, leaf_data, 0, TreeDepth, "goc_get")

\* manager.verify_leaf(&authority, leaf_hash, index)
CallVerifyLeaf(t, a, leaf_hash, index) ==
    StartCall(t, "verify_leaf", a, leaf_hash, index, TreeDepth, "goc_get")

\* manager.save_tree_state(&authority)
CallSaveTreeState(t, a) ==
    StartCall(t, "save_tree_state", a, <<>>, 0, 0, "save_get")

\* manager.get_or_create_tree(&authority, max_depth)
CallGetOrCreateTree(t, a, max_depth) ==
    StartCall(t, "get_or_create_tree", a, <<>>, 0, max_depth, "goc_get")

\* what task t's call returns: Ok when ok, Err(err) otherwise
RetOf(t, ok, err, verified, h, len) ==
    [op |-> task[t].op, auth |-> task[t].auth,
     data |-> task[t].data, index |-> task[t].index, ok |-> ok, err |-> err,
     ret_index |-> task[t].ret_index, ret_root |-> task[t].ret_root,
     verified |-> verified, h |-> h, len |-> len, depth |-> task[t].depth]

\* task t's call returns
Return(t, ok, err, verified, h, len) ==
    /\ task' = [task EXCEPT ![t] = IdleTask]
    /\ ret' = RetOf(t, ok, err, verified, h, len)

\* get_or_create_tree returns Ok(handle): a direct call returns to its caller,
\* insert_leaf and verify_leaf go on to tree.lock().await
AfterGoc(t, handle) ==
    IF task[t].op = "get_or_create_tree"
    THEN Return(t, TRUE, "", FALSE, handle, 0)
    ELSE /\ task' = [task EXCEPT ![t].pc = "lock", ![t].h = handle,
                                 ![t].loaded = None]
         /\ UNCHANGED ret

\* get_or_create_tree: `if let Some(tree) = self.trees.get(authority)`
GocGet(t) ==
    /\ task[t].pc = "goc_get"
    /\ LET a == task[t].auth
       IN  IF trees[a] # NoHandle
           THEN /\ AfterGoc(t, trees[a])
                /\ issued' = [issued EXCEPT ![a] = @ \cup {trees[a]}]
           ELSE /\ task' = [task EXCEPT ![t].pc = "goc_load"]
                /\ UNCHANGED <<issued, ret>>
    /\ UNCHANGED <<trees, arcs, mutex, shardOf, guards, storage, calls, active, epoch,
                   log, applied>>
    /\ UNCHANGED cacheOthers

\* get_or_create_tree: self.storage.load_tree(authority).await returned Ok
GocLoadOk(t) ==
    /\ task[t].pc = "goc_load"
    /\ task' = [task EXCEPT ![t].pc = "goc_insert",
                            ![t].loaded = storage[task[t].auth]]
    /\ UNCHANGED <<trees, arcs, mutex, shardOf, guards, storage, calls, active, epoch, ret,
                   log, issued, applied>>
    /\ UNCHANGED cacheOthers

\* variant of GocLoadErr: the failed load is taken for an absent tree
GocLoadErrMutant(t) ==
    /\ task[t].pc = "goc_load"
    /\ task' = [task EXCEPT ![t].pc = "goc_insert", ![t].loaded = None]
    /\ UNCHANGED <<trees, arcs, mutex, shardOf, guards, storage, calls, active, epoch,
                   ret, log, issued, applied>>
    /\ UNCHANGED cacheOthers

\* get_or_create_tree: load_tree returned Err, propagated by `?`
GocLoadErr(t) ==
    /\ task[t].pc = "goc_load"
    /\ Return(t, FALSE, "StorageError", FALSE, NoHandle, 0)
    /\ UNCHANGED <<trees, arcs, mutex, shardOf, guards, storage, calls, active, epoch, log,
                   issued, applied>>
    /\ UNCHANGED cacheOthers

\* variant of GocTree: the persisted tree is ignored
GocTreeMutant(loaded, max_depth) == MerkleTreeNew(max_depth)

\* the tree get_or_create_tree wraps on a registry miss
GocTree(loaded, max_depth) ==
    IF loaded # None THEN loaded[1] ELSE MerkleTreeNew(max_depth)

\* get_or_create_tree: Arc::new(Mutex::new(tree)); self.trees.insert(..)
\* DashMap::insert takes the shard's write lock: it waits for the read guards.
GocInsert(t) ==
    /\ task[t].pc \in {"goc_insert", "goc_blocked"}
    /\ LET a == task[t].auth
           handle == Len(arcs) + 1
       IN  /\ guards[shardOf[a]] = {}
           /\ arcs' = Append(arcs, [auth |-> a,
                                    tree |-> GocTree(task[t].loaded,
                                                     task[t].depth)])
           /\ mutex' = Append(mutex, NoTask)
           /\ trees' = [trees EXCEPT ![a] = handle]
           /\ issued' = [issued EXCEPT ![a] = @ \cup {handle}]
           /\ AfterGoc(t, handle)
    /\ UNCHANGED <<shardOf, guards, storage, calls, active, epoch, log, applied>>
    /\ UNCHANGED cacheOthers

\* insert_leaf / verify_leaf: tree.lock().await
Lock(t) ==
    /\ task[t].pc = "lock"
    /\ mutex[task[t].h] = NoTask
    /\ mutex' = [mutex EXCEPT ![task[t].h] = t]
    /\ task' = [task EXCEPT ![t].pc = "locked"]
    /\ UNCHANGED <<trees, arcs, shardOf, guards, storage, calls, active, epoch, ret, log,
                   issued, applied>>
    /\ UNCHANGED cacheOthers

\* insert_leaf under the lock: tree.insert(leaf_data)?; tree.get_root();
\* drop(tree)
InsertLocked(t) ==
    /\ task[t].pc = "locked"
    /\ task[t].op = "insert_leaf"
    /\ LET h == task[t].h
           r == Insert(arcs[h].tree, task[t].data)
       IN  /\ arcs' = [arcs EXCEPT ![h].tree = r.tree]
           /\ mutex' = [mutex EXCEPT ![h] = NoTask]
           /\ applied' = [applied EXCEPT ![task[t].auth] =
                            IF r.ok THEN @ + 1 ELSE @]
           /\ IF r.ok
              THEN /\ task' = [task EXCEPT ![t].pc = "save_get",
                                           ![t].ret_index = r.index,
                                           ![t].ret_root = GetRoot(r.tree)]
                   /\ UNCHANGED ret
              ELSE Return(t, FALSE, r.err, FALSE, h, Len(r.tree.leaves))
    /\ UNCHANGED <<trees, shardOf, guards, storage, calls, active, epoch, log, issued>>
    /\ UNCHANGED cacheOthers

\* verify_leaf under the lock: tree.get_proof(index)?; tree.get_root();
\* Ok(MerkleTree::verify_proof(..))
VerifyLocked(t) ==
    /\ task[t].pc = "locked"
    /\ task[t].op = "verify_leaf"
    /\ LET h == task[t].h
           tree == arcs[h].tree
           p == GetProof(tree, task[t].index)
       IN  /\ mutex' = [mutex EXCEPT ![h] = NoTask]
           /\ IF p.ok
              THEN Return(t, TRUE, "",
                          VerifyProof(GetRoot(tree), task[t].data, p.proof,
                                      task[t].index),
                          h, Len(tree.leaves))
              ELSE Return(t, FALSE, p.err, FALSE, h, Len(tree.leaves))
    /\ UNCHANGED <<trees, arcs, shardOf, guards, storage, calls, active, epoch, log, issued, applied>>
    /\ UNCHANGED cacheOthers

\* the log after task t's call returned Ok: the successful insert_leaf calls
Logged(t) ==
    IF task[t].op = "insert_leaf"
    THEN [log EXCEPT ![task[t].auth] =
            Append(@, [data |-> task[t].data,
                       index |-> task[t].ret_index,
                       root |-> task[t].ret_root, h |-> task[t].h])]
    ELSE log

\* variant of SaveGet: an authority without entry is reported as an error
SaveGetMutant(t) ==
    /\ task[t].pc = "save_get"
    /\ LET a == task[t].auth
       IN  IF trees[a] # NoHandle
           THEN /\ task' = [task EXCEPT ![t].pc = "save_lock",
                                        ![t].sh = trees[a]]
                /\ guards' = [guards EXCEPT ![shardOf[a]] = @ \cup {t}]
                /\ UNCHANGED <<log, ret>>
           ELSE /\ Return(t, FALSE, "NotFound", FALSE, task[t].h, 0)
                /\ UNCHANGED <<log, guards>>
    /\ UNCHANGED <<trees, arcs, mutex, shardOf, storage, calls, active, epoch, issued, applied>>
    /\ UNCHANGED cacheOthers

\* save_tree_state: `if let Some(tree) = self.trees.get(authority)`; the Ref
\* (a read lock on the shard) lives until the end of the block
SaveGet(t) ==
    /\ task[t].pc = "save_get"
    /\ LET a == task[t].auth
       IN  IF trees[a] # NoHandle
           THEN /\ task' = [task EXCEPT ![t].pc = "save_lock",
                                        ![t].sh = trees[a]]
                /\ guards' = [guards EXCEPT ![shardOf[a]] = @ \cup {t}]
                /\ UNCHANGED <<log, ret>>
           ELSE /\ Return(t, TRUE, "", FALSE, task[t].h, 0)
                /\ log' = Logged(t)
                /\ UNCHANGED guards
    /\ UNCHANGED <<trees, arcs, mutex, shardOf, storage, calls, active, epoch, issued, applied>>
    /\ UNCHANGED cacheOthers

\* save_tree_state: tree.value().lock().await
SaveLock(t) ==
    /\ task[t].pc = "save_lock"
    /\ mutex[task[t].sh] = NoTask
    /\ mutex' = [mutex EXCEPT ![task[t].sh] = t]
    /\ task' = [task EXCEPT ![t].pc = "save_store"]
    /\ UNCHANGED <<trees, arcs, shardOf, guards, storage, calls, active, epoch, ret, log,
                   issued, applied>>
    /\ UNCHANGED cacheOthers

\* save_tree_state: self.storage.save_tree(authority, &tree).await returned Ok
SaveStoreOk(t) ==
    /\ task[t].pc = "save_store"
    /\ LET a == task[t].auth
           sh == task[t].sh
       IN  /\ storage' = [storage EXCEPT ![a] = Some(arcs[sh].tree)]
           /\ mutex' = [mutex EXCEPT ![sh] = NoTask]
           /\ guards' = [guards EXCEPT ![shardOf[a]] = @ \ {t}]
           /\ log' = Logged(t)
           /\ Return(t, TRUE, "", FALSE, task[t].h, Len(arcs[sh].tree.leaves))
    /\ UNCHANGED <<trees, arcs, shardOf, calls, active, epoch, issued, applied>>
    /\ UNCHANGED cacheOthers

\* variant of SaveStoreErr: the failed save undoes the in-memory insert
SaveStoreErrMutant(t) ==
    /\ task[t].pc = "save_store"
    /\ mutex' = [mutex EXCEPT ![task[t].sh] = NoTask]
    /\ guards' = [guards EXCEPT ![shardOf[task[t].auth]] = @ \ {t}]
    /\ arcs' = [arcs EXCEPT ![task[t].sh].tree.leaves =
                   IF @ = <<>> THEN @ ELSE SubSeq(@, 1, Len(@) - 1)]
    /\ Return(t, FALSE, "StorageError", FALSE, task[t].h, 0)
    /\ UNCHANGED <<trees, shardOf, storage, calls, active, epoch, log, issued, applied>>
    /\ UNCHANGED cacheOthers

\* save_tree_state: save_tree returned Err, propagated by `?`
SaveStoreErr(t) ==
    /\ task[t].pc = "save_store"
    /\ mutex' = [mutex EXCEPT ![task[t].sh] = NoTask]
    /\ guards' = [guards EXCEPT ![shardOf[task[t].auth]] = @ \ {t}]
    /\ Return(t, FALSE, "StorageError", FALSE, task[t].h, 0)
    /\ UNCHANGED <<trees, arcs, shardOf, storage, calls, active, epoch, log, issued, applied>>
    /\ UNCHANGED cacheOthers

\* storage.delete_tree(&authority), called by a holder of the storage (the
\* TreeManager never calls it), when self.db.delete fails: the `?` returns
\* the error and the stored tree stays
DeleteTreeErr(a) ==
    /\ calls < MaxCalls
    /\ calls' = calls + 1
    /\ ret' = [NoRet EXCEPT !.op = "delete_tree", !.auth = a, !.ok = FALSE,
                            !.err = "StorageError"]
    /\ UNCHANGED <<trees, arcs, mutex, shardOf, guards, storage, task, active,
                   epoch, log, issued, applied>>
    /\ UNCHANGED cacheOthers

\* storage.delete_tree(&authority) when self.db.delete succeeds: Ok(()), and
\* no tree is stored for the authority, whether one was stored or not
DeleteTree(a) ==
    /\ calls < MaxCalls
    /\ calls' = calls + 1
    /\ storage' = [storage EXCEPT ![a] = None]
    /\ ret' = [NoRet EXCEPT !.op = "delete_tree", !.auth = a]
    /\ UNCHANGED <<trees, arcs, mutex, shardOf, guards, task, active, epoch, log,
                   issued, applied>>
    /\ UNCHANGED cacheOthers

CacheNext ==
    \/ \E a \in active : DeleteTree(a)
    \/ \E a \in active : DeleteTreeErr(a)
    \/ \E t \in Tasks :
        \/ \E a \in active, p \in Payloads : CallInsertLeaf(t, a, p)
        \/ \E a \in active, p \in Payloads, i \in 0..MaxIndex :
              CallVerifyLeaf(t, a, keccak(p), i)
        \/ \E a \in active : CallSaveTreeState(t, a)
        \/ \E a \in active, d \in GocDepths : CallGetOrCreateTree(t, a, d)
        \/ GocGet(t)
        \/ GocLoadOk(t)
        \/ GocLoadErr(t)
        \/ GocInsert(t)
        \/ Lock(t)
        \/ InsertLocked(t)
        \/ VerifyLocked(t)
        \/ SaveGet(t)
        \/ SaveLock(t)
        \/ SaveStoreOk(t)
        \/ SaveStoreErr(t)

\* TreeManager::new(storage): the TreeManager is dropped once no call borrows
\* it, and a new one is constructed over the same storage
TreeManagerNew ==
    /\ \A t \in Tasks : task[t].pc = "idle"
    /\ epoch < MaxManagers
    /\ epoch' = epoch + 1
    /\ trees' = [a \in Authorities |-> NoHandle]
    /\ UNCHANGED <<arcs, mutex, shardOf, guards, storage, task, calls, active,
                   ret, log, issued, applied>>
    /\ UNCHANGED cacheOthers

\* the worker threads of the runtime that polls the calls: one, as in the
\* current-thread runtime #[tokio::test] builds
Workers == 1

\* get_or_create_tree: self.trees.insert(..) finds the shard read-locked and
\* blocks: DashMap's lock is not async, the task keeps its worker thread
GocBlock(t) ==
    /\ task[t].pc = "goc_insert"
    /\ guards[shardOf[task[t].auth]] # {}
    /\ task' = [task EXCEPT ![t].pc = "goc_blocked"]
    /\ UNCHANGED <<trees, arcs, mutex, shardOf, guards, storage, calls, active, epoch,
                   ret, log, issued, applied>>
    /\ UNCHANGED cacheOthers

\* task t can be polled: a worker thread is left for it
Scheduled(t) ==
    Cardinality({u \in Tasks \ {t} : task[u].pc = "goc_blocked"}) < Workers

\* a step of a call in progress, on a runtime of Workers threads
CacheWorkersStep(t) ==
    /\ Scheduled(t)
    /\ \/ GocGet(t)
       \/ GocLoadOk(t)
       \/ GocBlock(t)
       \/ GocInsert(t)
       \/ Lock(t)
       \/ InsertLocked(t)
       \/ VerifyLocked(t)
       \/ SaveGet(t)
       \/ SaveLock(t)
       \/ SaveStoreOk(t)

\* concurrent callers polled by Workers threads, over a storage that answers
CacheWorkersNext ==
    \/ \E a \in active : DeleteTree(a)
    \/ \E a \in active : DeleteTreeErr(a)
    \/ \E t \in Tasks :
        \/ \E a \in active, p \in Payloads :
              Scheduled(t) /\ CallInsertLeaf(t, a, p)
        \/ \E a \in active, p \in Payloads, i \in 0..MaxIndex :
              Scheduled(t) /\ CallVerifyLeaf(t, a, keccak(p), i)
        \/ \E a \in active : Scheduled(t) /\ CallSaveTreeState(t, a)
        \/ \E a \in active, d \in GocDepths :
              Scheduled(t) /\ CallGetOrCreateTree(t, a, d)
        \/ Scheduled(t) /\ GocGet(t)
        \/ Scheduled(t) /\ GocLoadOk(t)
        \/ Scheduled(t) /\ GocBlock(t)
        \/ Scheduled(t) /\ GocInsert(t)
        \/ Scheduled(t) /\ Lock(t)
        \/ Scheduled(t) /\ InsertLocked(t)
        \/ Scheduled(t) /\ VerifyLocked(t)
        \/ Scheduled(t) /\ SaveGet(t)
        \/ Scheduled(t) /\ SaveLock(t)
        \/ Scheduled(t) /\ SaveStoreOk(t)

\* the max_depth values of trees that few inserts fill: capacities 1 and 2,
\* and the first depth whose shift overflows
SmallDepths == {0, 1, WordBits}

\* callers that create small trees and insert leaves until the trees are full
CacheFullNext ==
    \/ \E a \in active : DeleteTree(a)
    \/ \E a \in active : DeleteTreeErr(a)
    \/ \E t \in Tasks :
        \/ \E a \in active, p \in Payloads : CallInsertLeaf(t, a, p)
        \/ \E a \in active, d \in SmallDepths : CallGetOrCreateTree(t, a, d)
        \/ GocGet(t)
        \/ GocLoadOk(t)
        \/ GocLoadErr(t)
        \/ GocInsert(t)
        \/ Lock(t)
        \/ InsertLocked(t)
        \/ SaveGet(t)
        \/ SaveLock(t)
        \/ SaveStoreOk(t)
        \/ SaveStoreErr(t)

\* callers that insert leaves and fetch trees, across TreeManagers
CacheRestartNext ==
    \/ TreeManagerNew
    \/ \E a \in active : DeleteTree(a)
    \/ \E a \in active : DeleteTreeErr(a)
    \/ \E t \in Tasks :
        \/ \E a \in active, p \in Payloads : CallInsertLeaf(t, a, p)
        \/ \E a \in active, d \in GocDepths : CallGetOrCreateTree(t, a, d)
        \/ GocGet(t)
        \/ GocLoadOk(t)
        \/ GocLoadErr(t)
        \/ GocInsert(t)
        \/ Lock(t)
        \/ InsertLocked(t)
        \/ SaveGet(t)
        \/ SaveLock(t)
        \/ SaveStoreOk(t)
        \/ SaveStoreErr(t)

(***************************************************************************)
(* rate_limiter.rs: RateLimiter                                            *)
(***************************************************************************)
\* variant of Expired: the test with >= for >
ExpiredMutant(t, request_time) == t - request_time >= window_size

\* now.duration_since(*request_time) > self.window_size
Expired(t, request_time) == t - request_time > window_size

\* the loop `while let Some(request_time) = self.requests.front()`
RECURSIVE Prune(_, _)
Prune(q, t) ==
    IF q # <<>> /\ Expired(t, Head(q)) THEN Prune(Tail(q), t) ELSE q

\* variant of HasRoom: the length is taken before the expired entries are
\* pruned
HasRoomMutant(q) == Len(requests) < max_requests

\* variant of HasRoom: the test with <= for <
HasRoomLeMutant(q) == Len(q) <= max_requests

\* self.requests.len() < self.max_requests
HasRoom(q) == Len(q) < max_requests

\* RateLimiter::check_rate_limit
CheckRateLimit ==
    /\ LET pruned == Prune(requests, now)
       IN  /\ requests' = IF HasRoom(pruned) THEN Append(pruned, now) ELSE pruned
           /\ admitted' = IF HasRoom(pruned) THEN Append(admitted, now)
                                             ELSE admitted
           /\ lastAdmit' = [called |-> TRUE, at |-> now,
                            result |-> HasRoom(pruned), before |-> requests]
    /\ UNCHANGED <<now, window_size, max_requests>>
    /\ UNCHANGED limOthers

\* time passes between two calls
Tick ==
    /\ now < MaxTime
    /\ now' = now + 1
    /\ UNCHANGED <<requests, window_size, max_requests, admitted, lastAdmit>>
    /\ UNCHANGED limOthers

LimNext == CheckRateLimit \/ Tick

(***************************************************************************)
(* rate_limiter.rs: with_retry                                             *)
(***************************************************************************)
Min(a, b) == IF a <= b THEN a ELSE b

\* variant of RetryExhausted: the limit counts attempts
RetryExhaustedMutant(r) == r.retries + 1 >= r.max_retries

\* variant of RetryExhausted: the test with > for >=
RetryExhaustedGtMutant(r) == r.retries > r.max_retries

\* retries >= config.max_retries
RetryExhausted(r) == r.retries >= r.max_retries

\* operation().await returned Ok(value): return Ok(value)
RetryCallOk ==
    /\ retry.pc = "call"
    /\ retry' = [retry EXCEPT !.pc = "done", !.attempts = @ + 1, !.ok = TRUE]
    /\ UNCHANGED retryOthers

\* operation().await returned Err(error); the error of the n-th attempt is n
RetryCallErr ==
    /\ retry.pc = "call"
    /\ LET r == [retry EXCEPT !.attempts = @ + 1, !.failures = @ + 1]
       IN  retry' = IF RetryExhausted(r)
                    THEN [r EXCEPT !.pc = "done", !.ok = FALSE,
                                   !.error = r.attempts]
                    ELSE [r EXCEPT !.pc = "sleep"]
    /\ UNCHANGED retryOthers

\* tokio::time::sleep(delay).await; delay = min(delay * 2, max_delay);
\* retries += 1
RetrySleep ==
    /\ retry.pc = "sleep"
    /\ retry' = [retry EXCEPT !.pc = "call",
                              !.slept = Append(@, retry.delay),
                              !.delay = Min(retry.delay * 2, retry.max_delay),
                              !.retries = @ + 1]
    /\ UNCHANGED retryOthers

RetryNext == RetryCallOk \/ RetryCallErr \/ RetrySleep

(***************************************************************************)
(* transaction.rs: TransactionManager                                      *)
(***************************************************************************)
\* RetryConfig::default()
DefaultMaxAttempts == 3
DefaultBaseDelayMs == 1000
DefaultMaxDelayMs == 10000

\* a Transaction that carries no blockhash yet
NoBlockhash == -1

\* TransactionManager::new(rpc_url, commitment), no call made yet
SubNew ==
    [pc |-> "new", simulation_enabled |-> TRUE,
     max_attempts |-> DefaultMaxAttempts,
     base_delay_ms |-> DefaultBaseDelayMs,
     max_delay_ms |-> DefaultMaxDelayMs,
     recent_blockhash |-> NoBlockhash, fetches |-> 0, simulations |-> 0,
     sim |-> "none",
     attempt |-> 0, delay_ms |-> 0, sends |-> <<>>, slept |-> <<>>,
     ok |-> FALSE, err |-> "", msg |-> "", msg_attempt |-> 0]

\* the call returns Err(BubblegumError::<err>(<msg>))
SubFail(s, err, msg, n) ==
    [s EXCEPT !.pc = "done", !.ok = FALSE, !.err = err, !.msg = msg,
              !.msg_attempt = n]

\* entry of send_with_retry: attempt = 0, delay_ms = base_delay_ms
EnterSend(s) ==
    [s EXCEPT !.pc = "send", !.attempt = 0, !.delay_ms = s.base_delay_ms]

\* variant of SendExhausted: one more attempt is allowed
SendExhaustedMutant(s) == s.attempt > s.max_attempts

\* attempt >= self.retry_config.max_attempts
SendExhausted(s) == s.attempt >= s.max_attempts

\* variant of AfterSimulationErr: the reported failure is only logged
AfterSimulationErrMutant(s) == EnterSend(s)

\* simulation.value.err is Some(err): return Err(TransactionError(..))
AfterSimulationErr(s) == SubFail(s, "TransactionError", "Simulation failed", 0)

\* TransactionManager::disable_simulation
DisableSimulation ==
    /\ sub.pc = "new"
    /\ sub.simulation_enabled
    /\ sub' = [sub EXCEPT !.simulation_enabled = FALSE]
    /\ UNCHANGED chain
    /\ UNCHANGED subOthers

\* mint_to_collection: mint_to_collection_v1(..) returned Err
MintBuildErr ==
    /\ sub.pc = "new"
    /\ sub' = SubFail(sub, "TransactionError", "instruction", 0)
    /\ UNCHANGED chain
    /\ UNCHANGED subOthers

\* mint_to_collection: get_latest_blockhash() returned Err
MintBlockhashErr ==
    /\ sub.pc = "new"
    /\ sub' = SubFail([sub EXCEPT !.fetches = @ + 1], "RpcError", "", 0)
    /\ UNCHANGED chain
    /\ UNCHANGED subOthers

\* mint_to_collection: get_latest_blockhash() returned the latest blockhash,
\* the transaction is signed over it and simulate_and_send is entered
MintBlockhashOk ==
    /\ sub.pc = "new"
    /\ LET s == [sub EXCEPT !.fetches = @ + 1, !.recent_blockhash = chain]
       IN  sub' = IF s.simulation_enabled THEN [s EXCEPT !.pc = "simulate"]
                                          ELSE EnterSend(s)
    /\ UNCHANGED chain
    /\ UNCHANGED subOthers

\* simulate_and_send: simulate_transaction(tx) returned Err
SimulateRpcErr ==
    /\ sub.pc = "simulate"
    /\ sub' = SubFail([sub EXCEPT !.simulations = @ + 1, !.sim = "error"],
                      "RpcError", "", 0)
    /\ UNCHANGED chain
    /\ UNCHANGED subOthers

\* simulate_and_send: the simulation reported an error
SimulateFailed ==
    /\ sub.pc = "simulate"
    /\ sub' = AfterSimulationErr([sub EXCEPT !.simulations = @ + 1,
                                             !.sim = "failed"])
    /\ UNCHANGED chain
    /\ UNCHANGED subOthers

\* simulate_and_send: the simulation reported no error
SimulateOk ==
    /\ sub.pc = "simulate"
    /\ sub' = EnterSend([sub EXCEPT !.simulations = @ + 1, !.sim = "passed"])
    /\ UNCHANGED chain
    /\ UNCHANGED subOthers

\* the transaction as send_and_confirm_transaction_with_spinner(tx) gets it
Sent(s) == [blockhash |-> s.recent_blockhash, fetch |-> s.fetches,
            latest |-> chain]

\* send_with_retry: attempt += 1; the send returned Ok(signature)
SendOk ==
    /\ sub.pc = "send"
    /\ sub' = [sub EXCEPT !.pc = "done", !.attempt = @ + 1,
                          !.sends = Append(@, Sent(sub)), !.ok = TRUE]
    /\ UNCHANGED chain
    /\ UNCHANGED subOthers

\* send_with_retry: attempt += 1; the send returned Err(err)
SendErr ==
    /\ sub.pc = "send"
    /\ LET s == [sub EXCEPT !.attempt = @ + 1, !.sends = Append(@, Sent(sub))]
       IN  sub' = IF SendExhausted(s)
                  THEN SubFail(s, "TransactionError", "Transaction failed",
                               s.attempt)
                  ELSE [s EXCEPT !.pc = "sleep"]
    /\ UNCHANGED chain
    /\ UNCHANGED subOthers

\* send_with_retry: sleep(delay_ms); delay_ms = min(delay_ms * 2, max_delay_ms)
\* (the product stays far below 2^64 for the configuration new() installs)
SendSleep ==
    /\ sub.pc = "sleep"
    /\ sub' = [sub EXCEPT !.pc = "send",
                          !.slept = Append(@, sub.delay_ms),
                          !.delay_ms = Min(sub.delay_ms * 2, sub.max_delay_ms)]
    /\ UNCHANGED chain
    /\ UNCHANGED subOthers

\* the cluster produces a new block
ChainTick ==
    /\ chain < MaxHeight
    /\ chain' = chain + 1
    /\ UNCHANGED sub
    /\ UNCHANGED subOthers

SubNext ==
    \/ DisableSimulation
    \/ MintBuildErr
    \/ MintBlockhashErr
    \/ MintBlockhashOk
    \/ SimulateRpcErr
    \/ SimulateFailed
    \/ SimulateOk
    \/ SendOk
    \/ SendErr
    \/ SendSleep
    \/ ChainTick

(***************************************************************************)
(* Specifications.  Each drives one component and leaves the others in     *)
(* the state they are constructed in.                                      *)
(***************************************************************************)
NoAccRes == AccResult("new", 0, TRUE, "", 0, NoDigests, FALSE)
NoAdmit == [called |-> FALSE, at |-> 0, result |-> FALSE, before |-> <<>>]
OneShard == [a \in Authorities |-> 1]

\* RetryConfig and the locals of with_retry at entry
RetryStart(max_retries, base_delay, max_delay) ==
    [pc |-> "call", max_retries |-> max_retries, base_delay |-> base_delay,
     max_delay |-> max_delay, retries |-> 0, delay |-> base_delay,
     attempts |-> 0, failures |-> 0, slept |-> <<>>, ok |-> FALSE,
     error |-> 0]

NoRetry == [RetryStart(0, 0, 0) EXCEPT !.pc = "done"]

\* no TransactionManager call in progress
NoSub == [SubNew EXCEPT !.pc = "done"]

\* the max_depth values of the sequentially driven tree: the small depths,
\* and the first two whose shift overflows
AccDepths == (0..MaxDepth) \cup {WordBits, WordBits + 1}

\* MerkleTree::new(d) for d in AccDepths, in a build of either profile
InitAcc ==
    /\ acc \in {MerkleTreeNew(d) : d \in AccDepths}
    /\ accPayloads = <<>>
    /\ accRes = NoAccRes
    /\ accInserts = 0
    /\ trees = [a \in Authorities |-> NoHandle]
    /\ arcs = <<>>
    /\ mutex = <<>>
    /\ shardOf = OneShard
    /\ guards = [s \in Shards |-> {}]
    /\ storage = [a \in Authorities |-> None]
    /\ task = [t \in Tasks |-> IdleTask]
    /\ calls = 0
    /\ active = {}
    /\ epoch = 1
    /\ ret = NoRet
    /\ log = [a \in Authorities |-> <<>>]
    /\ issued = [a \in Authorities |-> {}]
    /\ applied = [a \in Authorities |-> 0]
    /\ now = 0
    /\ requests = <<>>
    /\ window_size = 0
    /\ max_requests = 0
    /\ admitted = <<>>
    /\ lastAdmit = NoAdmit
    /\ retry = NoRetry
    /\ sub = NoSub
    /\ chain = 0
    /\ overflow_checks \in BOOLEAN

\* TreeManager::new(storage) over an empty storage; shards are
\* interchangeable: authority 1 hashes to shard 1, the other authority to
\* the same shard or to another one
InitCache ==
    /\ acc = MerkleTreeNew(0)
    /\ accPayloads = <<>>
    /\ accRes = NoAccRes
    /\ accInserts = 0
    /\ trees = [a \in Authorities |-> NoHandle]
    /\ arcs = <<>>
    /\ mutex = <<>>
    /\ shardOf \in {f \in [Authorities -> Shards] : f[1] = 1}
    /\ guards = [s \in Shards |-> {}]
    /\ storage = [a \in Authorities |-> None]
    /\ task = [t \in Tasks |-> IdleTask]
    /\ calls = 0
    /\ active = Authorities
    /\ epoch = 1
    /\ ret = NoRet
    /\ log = [a \in Authorities |-> <<>>]
    /\ issued = [a \in Authorities |-> {}]
    /\ applied = [a \in Authorities |-> 0]
    /\ now = 0
    /\ requests = <<>>
    /\ window_size = 0
    /\ max_requests = 0
    /\ admitted = <<>>
    /\ lastAdmit = NoAdmit
    /\ retry = NoRetry
    /\ sub = NoSub
    /\ chain = 0
    /\ overflow_checks = FALSE

\* TreeManager::new(storage) over an empty storage, every caller referring
\* to authority 1
InitCacheOne ==
    /\ acc = MerkleTreeNew(0)
    /\ accPayloads = <<>>
    /\ accRes = NoAccRes
    /\ accInserts = 0
    /\ trees = [a \in Authorities |-> NoHandle]
    /\ arcs = <<>>
    /\ mutex = <<>>
    /\ shardOf = OneShard
    /\ guards = [s \in Shards |-> {}]
    /\ storage = [a \in Authorities |-> None]
    /\ task = [t \in Tasks |-> IdleTask]
    /\ calls = 0
    /\ active = {1}
    /\ epoch = 1
    /\ ret = NoRet
    /\ log = [a \in Authorities |-> <<>>]
    /\ issued = [a \in Authorities |-> {}]
    /\ applied = [a \in Authorities |-> 0]
    /\ now = 0
    /\ requests = <<>>
    /\ window_size = 0
    /\ max_requests = 0
    /\ admitted = <<>>
    /\ lastAdmit = NoAdmit
    /\ retry = NoRetry
    /\ sub = NoSub
    /\ chain = 0
    /\ overflow_checks = FALSE

\* TreeManager::new(storage) over an empty storage, every caller referring
\* to one authority, in a build of either profile
InitCacheFull ==
    /\ acc = MerkleTreeNew(0)
    /\ accPayloads = <<>>
    /\ accRes = NoAccRes
    /\ accInserts = 0
    /\ trees = [a \in Authorities |-> NoHandle]
    /\ arcs = <<>>
    /\ mutex = <<>>
    /\ shardOf = OneShard
    /\ guards = [s \in Shards |-> {}]
    /\ storage = [a \in Authorities |-> None]
    /\ task = [t \in Tasks |-> IdleTask]
    /\ calls = 0
    /\ active = {1}
    /\ epoch = 1
    /\ ret = NoRet
    /\ log = [a \in Authorities |-> <<>>]
    /\ issued = [a \in Authorities |-> {}]
    /\ applied = [a \in Authorities |-> 0]
    /\ now = 0
    /\ requests = <<>>
    /\ window_size = 0
    /\ max_requests = 0
    /\ admitted = <<>>
    /\ lastAdmit = NoAdmit
    /\ retry = NoRetry
    /\ sub = NoSub
    /\ chain = 0
    /\ overflow_checks \in BOOLEAN

\* RateLimiter::new(window_size, max_requests)
InitLimiter ==
    /\ acc = MerkleTreeNew(0)
    /\ accPayloads = <<>>
    /\ accRes = NoAccRes
    /\ accInserts = 0
    /\ trees = [a \in Authorities |-> NoHandle]
    /\ arcs = <<>>
    /\ mutex = <<>>
    /\ shardOf = OneShard
    /\ guards = [s \in Shards |-> {}]
    /\ storage = [a \in Authorities |-> None]
    /\ task = [t \in Tasks |-> IdleTask]
    /\ calls = 0
    /\ active = {}
    /\ epoch = 1
    /\ ret = NoRet
    /\ log = [a \in Authorities |-> <<>>]
    /\ issued = [a \in Authorities |-> {}]
    /\ applied = [a \in Authorities |-> 0]
    /\ now = 0
    /\ requests = <<>>
    /\ window_size \in 0..MaxWindow
    /\ max_requests \in 0..MaxLimit
    /\ admitted = <<>>
    /\ lastAdmit = NoAdmit
    /\ retry = NoRetry
    /\ sub = NoSub
    /\ chain = 0
    /\ overflow_checks = FALSE

\* with_retry(operation, config) at entry
InitRetry ==
    /\ acc = MerkleTreeNew(0)
    /\ accPayloads = <<>>
    /\ accRes = NoAccRes
    /\ accInserts = 0
    /\ trees = [a \in Authorities |-> NoHandle]
    /\ arcs = <<>>
    /\ mutex = <<>>
    /\ shardOf = OneShard
    /\ guards = [s \in Shards |-> {}]
    /\ storage = [a \in Authorities |-> None]
    /\ task = [t \in Tasks |-> IdleTask]
    /\ calls = 0
    /\ active = {}
    /\ epoch = 1
    /\ ret = NoRet
    /\ log = [a \in Authorities |-> <<>>]
    /\ issued = [a \in Authorities |-> {}]
    /\ applied = [a \in Authorities |-> 0]
    /\ now = 0
    /\ requests = <<>>
    /\ window_size = 0
    /\ max_requests = 0
    /\ admitted = <<>>
    /\ lastAdmit = NoAdmit
    /\ retry \in {RetryStart(m, b, x) : m \in 0..MaxRetriesCfg,
                                        b \in 0..MaxDelayCfg,
                                        x \in 0..MaxDelayCfg}
    /\ sub = NoSub
    /\ chain = 0
    /\ overflow_checks = FALSE

\* TransactionManager::new(rpc_url, commitment)
InitSubmit ==
    /\ acc = MerkleTreeNew(0)
    /\ accPayloads = <<>>
    /\ accRes = NoAccRes
    /\ accInserts = 0
    /\ trees = [a \in Authorities |-> NoHandle]
    /\ arcs = <<>>
    /\ mutex = <<>>
    /\ shardOf = OneShard
    /\ guards = [s \in Shards |-> {}]
    /\ storage = [a \in Authorities |-> None]
    /\ task = [t \in Tasks |-> IdleTask]
    /\ calls = 0
    /\ active = {}
    /\ epoch = 1
    /\ ret = NoRet
    /\ log = [a \in Authorities |-> <<>>]
    /\ issued = [a \in Authorities |-> {}]
    /\ applied = [a \in Authorities |-> 0]
    /\ now = 0
    /\ requests = <<>>
    /\ window_size = 0
    /\ max_requests = 0
    /\ admitted = <<>>
    /\ lastAdmit = NoAdmit
    /\ retry = NoRetry
    /\ sub = SubNew
    /\ chain = 0
    /\ overflow_checks = FALSE

\* the sequentially driven MerkleTree
SpecAcc == InitAcc /\ [][AccNext]_vars

\* the TreeManager with concurrent callers of two authorities
SpecCache == InitCache /\ [][CacheNext]_vars

\* the TreeManager with concurrent callers of one authority
SpecCacheOne == InitCacheOne /\ [][CacheNext]_vars

\* concurrent callers of one authority polled by Workers threads, every call
\* in progress being polled again and again and the storage answering Ok
SpecCacheWorkers ==
    /\ InitCacheOne
    /\ [][CacheWorkersNext]_vars
    /\ \A t \in Tasks : WF_vars(CacheWorkersStep(t))

\* the TreeManager with callers of one authority that fill small trees
SpecCacheFull == InitCacheFull /\ [][CacheFullNext]_vars

\* successive TreeManagers over one storage, callers of one authority
SpecCacheRestart == InitCacheOne /\ [][CacheRestartNext]_vars

\* the RateLimiter under a non-decreasing clock
SpecLimiter == InitLimiter /\ [][LimNext]_vars

\* one with_retry invocation
SpecRetry == InitRetry /\ [][RetryNext]_vars

\* one with_retry invocation whose future is driven to completion: the
\* operation returns and the sleep elapses
SpecRetryFair == InitRetry /\ [][RetryNext]_vars /\ WF_vars(RetryNext)

\* one TransactionManager and one mint_to_collection call
SpecSubmit == InitSubmit /\ [][SubNext]_vars

(***************************************************************************)
(* Properties.                                                             *)
(***************************************************************************)

\* ---- C1 --------------------------------------------------------------
\* C1: for every valid index i of a tree reached by inserts,
\* verify_proof(get_root(), keccak(payload_i), get_proof(i), i) is true.
C1_VerifyAfterInsert ==
    (accRes.op = "verify" /\ accRes.ok) => accRes.verified

\* ---- C2 --------------------------------------------------------------
AllIdle == \A t \in Tasks : task[t].pc = "idle"

RegisteredLeaves(a) == arcs[trees[a]].tree.leaves

\* C2: once all calls have returned, the registered tree of an authority has
\* as many leaves as insert_leaf calls returned Ok for it (no insertion is
\* lost).  Stated for the runs in which every applied insert returned Ok.
C2_NoLostInsert ==
    AllIdle =>
        \A a \in Authorities :
            (log[a] # <<>> /\ applied[a] = Len(log[a])) =>
                /\ trees[a] # NoHandle
                /\ Len(RegisteredLeaves(a)) = Len(log[a])

\* ---- C3 --------------------------------------------------------------
\* C3: every handle get_or_create_tree ever returned for an authority is the
\* same Arc: at most one in-memory tree per authority.
C3_OneInstance ==
    \A a \in Authorities : Cardinality(issued[a]) <= 1

\* ---- C4 --------------------------------------------------------------
\* C4: when insert_leaf returns Ok((index, root)), the tree held by the
\* storage for that authority has keccak(leaf_data) at position index.
C4_SavedAfterInsert ==
    (ret.op = "insert_leaf" /\ ret.ok) =>
        /\ storage[ret.auth] # None
        /\ ret.ret_index < Len(storage[ret.auth][1].leaves)
        /\ storage[ret.auth][1].leaves[ret.ret_index + 1] = keccak(ret.data)

\* ---- C5 --------------------------------------------------------------
\* n <= 2^d for a count n of the machine, which is below 2^WordBits
C5_AtMostPow2(n, d) == d >= WordBits \/ n <= 2 ^ d

\* C5: on a tree of depth D that started empty, the k-th insert call returns
\* Ok(k - 1) for k <= 2^D, and every later one fails with "Tree is full"
\* and leaves the tree at 2^D leaves.
C5_InsertIndices ==
    accRes.op = "insert" =>
        IF C5_AtMostPow2(accInserts, acc.max_depth)
        THEN /\ accRes.ok
             /\ accRes.index = accInserts - 1
             /\ Len(acc.leaves) = accInserts
        ELSE /\ ~accRes.ok
             /\ accRes.err = "Tree is full"
             /\ accRes.arg = 2 ^ acc.max_depth
             /\ Len(acc.leaves) = 2 ^ acc.max_depth

\* ---- C6 --------------------------------------------------------------
\* C6: get_proof(i) for a valid index returns exactly max_depth digests,
\* however many leaves the tree holds.
C6_ProofLength ==
    /\ (accRes.op = "get_proof" /\ accRes.ok) =>
            Len(accRes.digests) = acc.max_depth
    /\ \A i \in 0..(Len(acc.leaves) - 1) :
            /\ GetProof(acc, i).ok
            /\ Len(GetProof(acc, i).proof) = acc.max_depth

\* a proof of full length was returned by a tree holding one leaf only
C6_Witness ==
    /\ accRes.op = "get_proof"
    /\ accRes.ok
    /\ acc.max_depth = MaxDepth
    /\ MaxDepth > 0
    /\ Len(acc.leaves) = 1
    /\ Len(accRes.digests) = MaxDepth

\* ---- C7 --------------------------------------------------------------
\* the largest power of two strictly below n (n >= 2)
RECURSIVE SplitPoint(_, _)
SplitPoint(n, k) == IF 2 * k < n THEN SplitPoint(n, 2 * k) ELSE k

SubSeqFrom(q, k) == SubSeq(q, k, Len(q))

\* the reference reduction: a complete subtree over the first 2^j leaves
\* hashed with the reduction of the rest; a lone element is carried up as is
RECURSIVE RefReduce(_)
RefReduce(q) ==
    IF Len(q) = 1
    THEN q[1]
    ELSE LET k == SplitPoint(Len(q), 1)
         IN  keccak(RefReduce(SubSeq(q, 1, k)) \o RefReduce(SubSeqFrom(q, k + 1)))

\* C7: get_root is the pairwise reduction with the unpaired last element
\* carried up unchanged: 32 zero bytes for no leaf, H for one leaf,
\* Hash(H1 || H2) for two, Hash(Hash(H1 || H2) || H3) for three.
C7_Root ==
    accRes.op = "get_root" =>
        LET root == accRes.digests[1]
            l == acc.leaves
        IN  /\ Len(l) = 0 => (Len(root) = 32 /\ \A i \in 1..32 : root[i] = 0)
            /\ Len(l) = 1 => root = l[1]
            /\ Len(l) = 2 => root = keccak(l[1] \o l[2])
            /\ Len(l) = 3 => root = keccak(keccak(l[1] \o l[2]) \o l[3])
            /\ Len(l) > 0 => root = RefReduce(l)

\* the root of three leaves, the last one unpaired, was computed
C7_Witness ==
    /\ accRes.op = "get_root"
    /\ Len(acc.leaves) = 3
    /\ acc.leaves[1] # acc.leaves[3]
    /\ accRes.digests[1] = keccak(keccak(acc.leaves[1] \o acc.leaves[2])
                                  \o acc.leaves[3])

\* ---- C8 --------------------------------------------------------------
\* C8: get_proof fails with "Index out of bounds" exactly when
\* index >= leaves.len(); verify_leaf called with such an index returns that
\* error, not Ok(false).
C8_IndexOutOfBounds ==
    (ret.op = "verify_leaf" /\ ret.h # NoHandle) =>
        IF ret.index >= ret.len
        THEN ~ret.ok /\ ret.err = "Index out of bounds"
        ELSE ret.ok

\* verify_leaf was refused for the index just past the last leaf
C8_Witness ==
    /\ ret.op = "verify_leaf"
    /\ ret.h # NoHandle
    /\ ret.len > 0
    /\ ret.index = ret.len
    /\ ~ret.ok
    /\ ret.err = "Index out of bounds"

\* ---- C9 --------------------------------------------------------------
\* the admitted calls made in the closed interval [from, to]
AdmittedIn(history, from, to) ==
    {k \in DOMAIN history : from <= history[k] /\ history[k] <= to}

\* C9: no interval of length window_size holds more than max_requests
\* admitted calls; a call is refused exactly when max_requests calls were
\* admitted within the trailing window, and it is admitted once more than
\* window_size has passed since the oldest call still queued.
C9_SlidingWindow ==
    /\ \A from \in 0..MaxTime :
          Cardinality(AdmittedIn(admitted, from, from + window_size))
              <= max_requests
    /\ lastAdmit.called =>
          LET earlier == IF lastAdmit.result
                         THEN SubSeq(admitted, 1, Len(admitted) - 1)
                         ELSE admitted
              recent == AdmittedIn(earlier, lastAdmit.at - window_size,
                                   lastAdmit.at)
          IN  /\ lastAdmit.result <=> Cardinality(recent) < max_requests
              /\ ( /\ max_requests >= 1
                   /\ lastAdmit.before # <<>>
                   /\ lastAdmit.at - Head(lastAdmit.before) > window_size )
                 => lastAdmit.result

\* a limiter that was full admitted a call after its oldest entry expired
C9_Witness ==
    /\ lastAdmit.called
    /\ lastAdmit.result
    /\ max_requests = 2
    /\ Len(lastAdmit.before) = max_requests
    /\ lastAdmit.at - Head(lastAdmit.before) > window_size
    /\ Len(admitted) > max_requests

\* ---- C10 -------------------------------------------------------------
RetryAllFailed == retry.pc = "done" /\ ~retry.ok

\* C10: with_retry on an operation that always fails attempts it exactly
\* maxAttempts (config.max_retries) times and returns the last failure.
C10_AttemptsAsClaimed ==
    RetryAllFailed =>
        /\ retry.attempts = retry.max_retries
        /\ retry.error = retry.attempts

\* C10 as amended: the operation is attempted max_retries + 1 times (the
\* first attempt and max_retries retries); the failure returned is the one
\* of the last attempt.
C10_Attempts ==
    RetryAllFailed =>
        /\ retry.attempts = retry.max_retries + 1
        /\ retry.failures = retry.attempts
        /\ retry.error = retry.attempts

\* a run configured with max_retries = 3 gave up
C10_Witness ==
    /\ RetryAllFailed
    /\ retry.max_retries = 3
    /\ retry.attempts = 4

\* ---- C11 -------------------------------------------------------------
\* C11: the wait performed after the n-th failed attempt of with_retry is
\* min(base_delay * 2^(n-1), max_delay), for every configuration; no wait
\* exceeds max_delay.
C11_BackoffDelays ==
    \A n \in 1..Len(retry.slept) :
        /\ retry.slept[n] = Min(retry.base_delay * 2 ^ (n - 1), retry.max_delay)
        /\ retry.slept[n] <= retry.max_delay

\* ---- C12 -------------------------------------------------------------
\* C12: with simulation enabled, a simulation that reports a failure, or a
\* simulate_transaction call that fails, makes the call return an error
\* with no send attempt and no wait; a send attempt is made only after a
\* simulation that reported no failure, or with simulation disabled.
C12_SimulationGate ==
    /\ sub.sim \in {"error", "failed"} =>
        /\ sub.pc = "done"
        /\ ~sub.ok
        /\ sub.err = (IF sub.sim = "failed" THEN "TransactionError"
                                             ELSE "RpcError")
        /\ sub.sends = <<>>
        /\ sub.slept = <<>>
    /\ sub.pc \in {"send", "sleep"} \/ sub.sends # <<>> =>
        sub.sim = (IF sub.simulation_enabled THEN "passed" ELSE "none")

\* the simulation reported a failure and the call returned
C12_Witness ==
    /\ sub.pc = "done"
    /\ sub.sim = "failed"
    /\ sub.msg = "Simulation failed"
    /\ sub.simulation_enabled

\* ---- C13 -------------------------------------------------------------
\* C13: send_with_retry makes at most max_attempts send attempts; when they
\* all fail it returns a terminal failure whose attempt count is the number
\* of send attempts made, which is max_attempts.
C13_SendAttempts ==
    /\ Len(sub.sends) <= sub.max_attempts
    /\ sub.attempt = Len(sub.sends)
    /\ sub.pc = "sleep" => Len(sub.sends) < sub.max_attempts
    /\ sub.pc = "done" /\ ~sub.ok /\ sub.sends # <<>> =>
        /\ sub.err = "TransactionError"
        /\ sub.msg = "Transaction failed"
        /\ sub.msg_attempt = Len(sub.sends)
        /\ sub.msg_attempt = sub.max_attempts

\* every send attempt failed and the terminal failure was returned
C13_Witness ==
    /\ sub.pc = "done"
    /\ ~sub.ok
    /\ sub.msg = "Transaction failed"
    /\ Len(sub.sends) = DefaultMaxAttempts
    /\ Len(sub.slept) = DefaultMaxAttempts - 1

\* ---- C14 -------------------------------------------------------------
\* C14: every send attempt of the retry loop uses a blockhash fetched for
\* that attempt: no attempt reuses the blockhash fetch of an earlier one.
C14_FreshBlockhash ==
    \A j, k \in 1..Len(sub.sends) :
        j < k => sub.sends[k].fetch # sub.sends[j].fetch

\* ---- C15 -------------------------------------------------------------
\* C15: a check_rate_limit call that returns false leaves the queue of
\* timestamps exactly as it was before the call, for max_requests >= 1.
C15_RejectNoMutation ==
    lastAdmit.called /\ ~lastAdmit.result /\ max_requests >= 1 =>
        requests = lastAdmit.before

\* a call was rejected while the queue held an entry that a later call
\* prunes
C15_Witness ==
    /\ lastAdmit.called
    /\ ~lastAdmit.result
    /\ max_requests >= 1
    /\ lastAdmit.at = now
    /\ Len(requests) = max_requests
    /\ now - Head(requests) = window_size
    /\ window_size >= 1

\* ---- C16 -------------------------------------------------------------
\* C16: under a non-decreasing clock the queue is ordered oldest first, its
\* length never exceeds max_requests, and right after a call no entry of
\* the queue is older than window_size relative to that call's now.
C16_QueueShape ==
    /\ \A i, j \in 1..Len(requests) : i <= j => requests[i] <= requests[j]
    /\ Len(requests) <= max_requests
    /\ lastAdmit.called =>
        \A i \in 1..Len(requests) : lastAdmit.at - requests[i] <= window_size

\* a call pruned an expired entry and kept a younger one beside the new one
C16_Witness ==
    /\ lastAdmit.called
    /\ lastAdmit.result
    /\ Len(lastAdmit.before) = 2
    /\ Len(requests) = 2
    /\ requests[1] = lastAdmit.before[2]
    /\ requests[1] < requests[2]
    /\ lastAdmit.at - lastAdmit.before[1] > window_size

\* ---- C17 -------------------------------------------------------------
\* C17 as claimed: no with_retry run performs more than max_retries
\* attempts.
C17_AttemptsAsClaimed == retry.attempts <= retry.max_retries

\* what a finished or running with_retry invocation has done
C17_RunShape ==
    /\ retry.attempts <= retry.max_retries + 1
    /\ retry.pc = "done" /\ retry.ok =>
        /\ retry.attempts = retry.failures + 1
        /\ Len(retry.slept) = retry.failures
    /\ retry.pc = "done" /\ ~retry.ok =>
        /\ retry.attempts = retry.max_retries + 1
        /\ retry.failures = retry.attempts
        /\ Len(retry.slept) = retry.max_retries

\* C17: every with_retry run terminates; a run whose k-th attempt is the
\* first success, k <= max_retries + 1, returns after exactly k attempts
\* and k - 1 waits; a run without success stops after max_retries + 1
\* attempts; no run performs more than max_retries + 1 attempts.
C17_Terminates == [](C17_RunShape) /\ <>(retry.pc = "done")

\* a run configured with max_retries = 2 succeeded at its last attempt
C17_Witness ==
    /\ retry.pc = "done"
    /\ retry.ok
    /\ retry.max_retries = 2
    /\ retry.attempts = 3
    /\ Len(retry.slept) = 2

\* ---- C18 -------------------------------------------------------------
\* C18: when the save inside insert_leaf fails after the in-memory insert,
\* insert_leaf returns Err(StorageError), the tree it inserted into keeps
\* the leaf, and that step leaves the storage as it was.
C18_SaveFailure ==
    [][\A t \in Tasks :
          /\ task[t].op = "insert_leaf"
          /\ task[t].pc = "save_store"
          /\ task'[t].pc = "idle"
          /\ ~ret'.ok
          => /\ ret'.op = "insert_leaf"
             /\ ret'.err = "StorageError"
             /\ storage' = storage
             /\ arcs' = arcs
             /\ task[t].ret_index < Len(arcs'[task[t].h].tree.leaves)
             /\ arcs'[task[t].h].tree.leaves[task[t].ret_index + 1]
                    = keccak(task[t].data)]_vars

\* the first insert_leaf of an authority failed at the save: the tree holds
\* the leaf, the storage holds nothing
C18_Witness ==
    /\ ret.op = "insert_leaf"
    /\ ~ret.ok
    /\ ret.err = "StorageError"
    /\ ret.h # NoHandle
    /\ arcs[ret.h].tree.leaves = <<keccak(ret.data)>>
    /\ storage[ret.auth] = None
    /\ AllIdle

\* ---- C19 -------------------------------------------------------------
\* C19: save_tree_state for an authority without registry entry returns Ok
\* and touches neither the storage nor the registry; for an authority with
\* an entry a successful save stores exactly the current tree of that
\* entry, read while the caller holds the tree's mutex.
C19_SaveTreeState ==
    [][\A t \in Tasks :
          task[t].op = "save_tree_state" /\ task'[t] # task[t] =>
             /\ task[t].pc = "save_get" /\ trees[task[t].auth] = NoHandle =>
                   /\ task'[t].pc = "idle"
                   /\ ret'.op = "save_tree_state"
                   /\ ret'.ok
                   /\ storage' = storage
                   /\ trees' = trees
                   /\ arcs' = arcs
             /\ task[t].pc = "save_store" /\ ret'.ok =>
                   /\ mutex[task[t].sh] = t
                   /\ trees[task[t].auth] = task[t].sh
                   /\ storage'[task[t].auth] = Some(arcs[task[t].sh].tree)
                   /\ arcs' = arcs]_vars

\* save_tree_state returned Ok for an authority nobody had touched
C19_Witness ==
    /\ ret.op = "save_tree_state"
    /\ ret.ok
    /\ trees[ret.auth] = NoHandle
    /\ storage[ret.auth] = None
    /\ arcs = <<>>
    /\ AllIdle

\* ---- C20 -------------------------------------------------------------
\* the handle task t's get_or_create_tree returns in this step
C20_Handle(t) ==
    IF task[t].op = "get_or_create_tree" THEN ret'.h ELSE task'[t].h

\* C20: on a registry hit get_or_create_tree returns the registered
\* instance and neither reads nor writes the storage; on a miss it loads
\* what the storage holds for the authority and registers a tree equal to
\* it (the max_depth argument is ignored), or an empty tree of the given
\* max_depth when the storage holds none.  A new TreeManager over the same
\* storage thereby gets the persisted leaves.
C20_GetOrCreate ==
    [][\A t \in Tasks :
          task'[t] # task[t] =>
             /\ task[t].pc = "goc_get" /\ trees[task[t].auth] # NoHandle =>
                   /\ task'[t].pc \in {"idle", "lock"}
                   /\ C20_Handle(t) = trees[task[t].auth]
                   /\ storage' = storage
                   /\ trees' = trees
                   /\ arcs' = arcs
             /\ task[t].pc = "goc_load" /\ task'[t].pc = "goc_insert" =>
                   /\ task'[t].loaded = storage[task[t].auth]
                   /\ storage' = storage
             /\ task[t].pc = "goc_insert" =>
                   /\ C20_Handle(t) = Len(arcs) + 1
                   /\ trees'[task[t].auth] = C20_Handle(t)
                   /\ storage' = storage
                   /\ arcs'[C20_Handle(t)].tree =
                        (IF task[t].loaded # None
                         THEN task[t].loaded[1]
                         ELSE [max_depth |-> task[t].depth, nodes |-> NoNodes,
                               leaves |-> <<>>])]_vars

\* the second TreeManager, asked for a tree of depth 1, returned the tree
\* of depth 14 with the leaf the first one had saved
C20_Witness ==
    /\ epoch = 2
    /\ ret.op = "get_or_create_tree"
    /\ ret.ok
    /\ ret.depth = 1
    /\ ret.h = 2
    /\ trees[ret.auth] = ret.h
    /\ Len(log[ret.auth]) = 1
    /\ arcs[ret.h].tree.max_depth = TreeDepth
    /\ arcs[ret.h].tree.leaves = <<keccak(log[ret.auth][1].data)>>
    /\ storage[ret.auth] = Some(arcs[ret.h].tree)

\* ---- C21 -------------------------------------------------------------
\* C21: when load_tree fails inside get_or_create_tree, the call that ran
\* it (get_or_create_tree, insert_leaf or verify_leaf) returns the error,
\* and that call registers no tree, mutates no tree and saves nothing.
C21_LoadFailure ==
    [][\A t \in Tasks :
          task[t].pc = "goc_load" /\ task'[t].pc # "goc_load" =>
             \/ /\ task'[t].pc = "goc_insert"
                /\ task'[t].loaded = storage[task[t].auth]
                /\ UNCHANGED <<trees, arcs, storage, ret>>
             \/ /\ task'[t].pc = "idle"
                /\ ret'.op = task[t].op
                /\ ~ret'.ok
                /\ ret'.err = "StorageError"
                /\ ret'.h = NoHandle
                /\ UNCHANGED <<trees, arcs, storage, log, applied>>]_vars

\* the load of the first insert_leaf failed: the call returned the error,
\* nothing is registered, allocated or stored
C21_Witness ==
    /\ ret.op = "insert_leaf"
    /\ ~ret.ok
    /\ ret.err = "StorageError"
    /\ ret.h = NoHandle
    /\ trees[ret.auth] = NoHandle
    /\ arcs = <<>>
    /\ storage[ret.auth] = None
    /\ AllIdle

\* ---- C22 -------------------------------------------------------------
IsPrefix(s, t) == Len(s) <= Len(t) /\ SubSeq(t, 1, Len(s)) = s

\* C22: in every step, for every authority, the leaves of the registered
\* tree extend the leaves the registered tree had before the step, and a
\* tree written to the storage extends the tree that was stored before
\* (a delete_tree call apart).
C22_AppendOnly ==
    [][\A a \in Authorities :
          /\ trees[a] # NoHandle =>
                /\ trees'[a] # NoHandle
                /\ IsPrefix(arcs[trees[a]].tree.leaves,
                            arcs'[trees'[a]].tree.leaves)
          /\ storage[a] # None /\ ret'.op # "delete_tree" =>
                /\ storage'[a] # None
                /\ IsPrefix(storage[a][1].leaves, storage'[a][1].leaves)]_vars

\* ---- C23 -------------------------------------------------------------
\* the tree with its nodes map emptied
C23_WithoutNodes == [acc EXCEPT !.nodes = NoNodes]

\* C23: in every reachable state of a MerkleTree, leaves.len() is at most
\* 2^max_depth, leaves[i] is keccak of the payload whose insert returned
\* i, nodes maps each leaves[i] to that payload, and get_root and
\* get_proof give the same results with nodes emptied.
C23_TreeShape ==
    /\ C5_AtMostPow2(Len(acc.leaves), acc.max_depth)
    /\ Len(acc.leaves) = Len(accPayloads)
    /\ accRes.op = "insert" /\ accRes.ok =>
        /\ accRes.index = Len(acc.leaves) - 1
        /\ accRes.index = accRes.arg
    /\ \A i \in 1..Len(acc.leaves) :
        /\ acc.leaves[i] = keccak(accPayloads[i])
        /\ acc.leaves[i] \in DOMAIN acc.nodes
        /\ acc.nodes[acc.leaves[i]] = accPayloads[i]
    /\ GetRoot(C23_WithoutNodes) = GetRoot(acc)
    /\ \A i \in 0..Len(acc.leaves) :
        GetProof(C23_WithoutNodes, i) = GetProof(acc, i)

\* a full tree of depth 2 holding both payloads
C23_Witness ==
    /\ acc.max_depth = 2
    /\ Len(acc.leaves) = 4
    /\ accRes.op = "insert"
    /\ accRes.ok
    /\ accRes.index = 3
    /\ \E i, j \in 1..4 : accPayloads[i] # accPayloads[j]

\* ---- C24 -------------------------------------------------------------
\* c XOR 1 for a natural number c
C24_Xor1(c) == c + 1 - 2 * (c % 2)

\* n div 2^k, by k halvings
RECURSIVE C24_DivPow2(_, _)
C24_DivPow2(n, k) == IF k = 0 THEN n ELSE C24_DivPow2(n \div 2, k - 1)

\* C24: the k-th element (k = 0..max_depth-1) of get_proof(index) is, with
\* c = index div 2^k and s = c XOR 1, leaves[s] when s < leaves.len() and
\* 32 zero bytes otherwise.
C24_ProofElements ==
    accRes.op = "get_proof" /\ accRes.ok =>
        /\ Len(accRes.digests) = acc.max_depth
        /\ \A k \in 0..(acc.max_depth - 1) :
            LET c == C24_DivPow2(accRes.arg, k)
                s == C24_Xor1(c)
            IN  accRes.digests[k + 1] =
                    (IF s < Len(acc.leaves) THEN acc.leaves[s + 1]
                                            ELSE ZeroDigest)

\* get_proof(2) on three leaves of a tree of depth 2: a zero digest at
\* level 0 and the leaf 0, not a node hash, at level 1
C24_Witness ==
    /\ accRes.op = "get_proof"
    /\ accRes.ok
    /\ accRes.arg = 2
    /\ acc.max_depth = 2
    /\ Len(acc.leaves) = 3
    /\ accRes.digests = <<ZeroDigest, acc.leaves[1]>>

\* ---- C25 -------------------------------------------------------------
\* C25: a call for one authority is never made to wait by a call in
\* progress for another authority: a task that waits for the write lock of
\* a registry shard, or for a tree's mutex, waits for tasks of its own
\* authority only.
C25_NoCrossContention ==
    \A t \in Tasks :
        /\ task[t].pc \in {"goc_insert", "goc_blocked"} =>
              \A u \in guards[shardOf[task[t].auth]] :
                  task[u].auth = task[t].auth
        /\ task[t].pc = "lock" /\ mutex[task[t].h] # NoTask =>
              task[mutex[task[t].h]].auth = task[t].auth
        /\ task[t].pc = "save_lock" /\ mutex[task[t].sh] # NoTask =>
              task[mutex[task[t].sh]].auth = task[t].auth

\* ---- C26 -------------------------------------------------------------
\* C26: under fair scheduling and a storage that always answers, every
\* call in progress eventually returns.
C26_EveryCallReturns ==
    \A t \in Tasks : (task[t].pc # "idle") ~> (task[t].pc = "idle")

\* ---- C27 -------------------------------------------------------------
\* C27: an insert on a tree that holds 2^max_depth leaves fails with "Tree
\* is full" and leaves the tree's leaves and nodes as they were; the
\* insert_leaf that ran it returns that error and saves nothing.
C27_FullInsert ==
    [][\A t \in Tasks :
          task[t].op = "insert_leaf" /\ task[t].pc = "locked"
          /\ task'[t] # task[t] =>
             LET tree == arcs[task[t].h].tree
             IN  /\ (/\ tree.max_depth < WordBits
                      /\ Len(tree.leaves) >= 2 ^ tree.max_depth) =>
                      /\ ret'.op = "insert_leaf"
                      /\ ret'.auth = task[t].auth
                      /\ ~ret'.ok
                      /\ ret'.err = "Tree is full"
                 /\ IF task'[t].pc = "idle"
                    THEN /\ ret'.op = "insert_leaf"
                         /\ ret'.auth = task[t].auth
                         /\ ~ret'.ok
                         /\ ret'.err \in {"Tree is full", ShiftOverflow}
                         /\ UNCHANGED <<arcs, storage, log, applied>>
                    ELSE /\ task'[t].pc = "save_get"
                         /\ arcs'[task[t].h].tree.leaves
                               = Append(tree.leaves, keccak(task[t].data))]_vars

\* insert_leaf was refused on the full tree of depth 0 whose one leaf an
\* earlier insert_leaf had inserted and saved; all calls have returned
C27_Witness ==
    /\ ret.op = "insert_leaf"
    /\ ~ret.ok
    /\ ret.err = "Tree is full"
    /\ arcs[ret.h].tree.max_depth = 0
    /\ Len(arcs[ret.h].tree.leaves) = 1
    /\ ret.len = 1
    /\ Len(log[ret.auth]) = 1
    /\ storage[ret.auth] = Some(arcs[ret.h].tree)
    /\ AllIdle

\* ---- C28 -------------------------------------------------------------
\* C28: every insert_leaf that returned Ok((index, root)) returned the root
\* of the tree as it was right after its own insertion (index + 1 leaves),
\* and no two such calls for one authority returned the same index.
C28_InsertResults ==
    \A a \in Authorities :
        /\ \A i \in 1..Len(log[a]) :
              LET e == log[a][i]
                  tree == arcs[e.h].tree
              IN  /\ e.index < Len(tree.leaves)
                  /\ tree.leaves[e.index + 1] = keccak(e.data)
                  /\ e.root = GetRoot([tree EXCEPT !.leaves =
                                         SubSeq(@, 1, e.index + 1)])
        /\ \A i, j \in 1..Len(log[a]) :
              i # j => log[a][i].index # log[a][j].index

====
